---- MODULE Spec2Model ----
(***************************************************************************)
(* Temperature-history analysis: rolling statistics, anomaly detection,    *)
(* long-term trends (src/utils/analysis.py), the live anomaly scorer and   *)
(* its callers (src/utils/sync_monitoring.py, src/utils/async_monitoring.py*)
(* and src/app.py).                                                        *)
(*                                                                         *)
(* Arithmetic is exact: a float of the program is modelled by the real     *)
(* number  p/q + k*sqrt(u/v)  it approximates, or by NaN.  Comparisons     *)
(* with NaN are false, as in IEEE-754.                                     *)
(***************************************************************************)
EXTENDS Integers, Sequences, FiniteSets, TLC

VARIABLES
    pc,            \* position of the program in the run being modelled
    df,            \* the table given to the operation (rows in arrival order)
    window,        \* the window argument of calculate_moving_stats
    stats_df,      \* the table returned by calculate_moving_stats
    processed_df,  \* the table returned by detect_anomalies
    trends_df,     \* the table returned by calculate_long_term_trends
    now_month,     \* datetime.now().month
    analysis,      \* the last result of analyze_temperature_anomaly
    caller         \* the state of the caller of the live check

vars == <<pc, df, window, stats_df, processed_df, trends_df, now_month,
          analysis, caller>>

(***************************************************************************)
(* Bounds of the model.                                                    *)
(***************************************************************************)
MaxRows == 3
LongLen == 6
MaxWindow == 6
MaxTrendRows == 4
MaxLiveRows == 3
MaxCallerRows == 2
MaxBatch == 2

MaxMonth == 13

MaxTemp == 2

\* the window the upload handler asks for
DefaultWindow == 30

(***************************************************************************)
(* Numbers.                                                                *)
(***************************************************************************)
NaN == [nan |-> TRUE, p |-> 0, q |-> 1, k |-> 0, u |-> 0, v |-> 1]

Rat(p, q) == [nan |-> FALSE, p |-> p, q |-> q, k |-> 0, u |-> 0, v |-> 1]

FromInt(x) == Rat(x, 1)

\* k * sqrt(u/v)
Root(k, u, v) == [nan |-> FALSE, p |-> 0, q |-> 1, k |-> k, u |-> u, v |-> v]

IsNull(x) == x.nan

HasRoot(x) == x.k # 0 /\ x.u # 0

\* x + y; the two square roots, when both are present, are of the same number
NumAdd(x, y) ==
    IF x.nan \/ y.nan THEN NaN
    ELSE [nan |-> FALSE,
          p |-> x.p * y.q + y.p * x.q,
          q |-> x.q * y.q,
          k |-> (IF HasRoot(x) THEN x.k ELSE 0) + (IF HasRoot(y) THEN y.k ELSE 0),
          u |-> IF HasRoot(x) THEN x.u ELSE y.u,
          v |-> IF HasRoot(x) THEN x.v ELSE y.v]

NumScale(m, x) ==
    IF x.nan THEN NaN
    ELSE [nan |-> FALSE, p |-> m * x.p, q |-> x.q, k |-> m * x.k,
          u |-> x.u, v |-> x.v]

NumSub(x, y) == NumAdd(x, NumScale(-1, y))

\* x > 0, false for NaN
NumPositive(x) ==
    /\ ~x.nan
    /\ IF ~HasRoot(x) THEN x.p > 0
       ELSE IF x.k > 0
            THEN x.p >= 0 \/ x.k * x.k * x.u * x.q * x.q > x.p * x.p * x.v
            ELSE x.p > 0 /\ x.p * x.p * x.v > x.k * x.k * x.u * x.q * x.q

\* x > y and x < y as the program's float comparisons: false when either is NaN
NumGT(x, y) == NumPositive(NumSub(x, y))

NumLT(x, y) == NumPositive(NumSub(y, x))

\* x and y are the same real number (NaN equals nothing)
NumEq(x, y) == ~x.nan /\ ~y.nan /\ ~NumGT(x, y) /\ ~NumLT(x, y)

RECURSIVE ISqrt(_)
\* the integer part of the square root of n >= 0
ISqrt(n) ==
    IF n < 2 THEN n
    ELSE LET s == 2 * ISqrt(n \div 4)
         IN  IF (s + 1) * (s + 1) <= n THEN s + 1 ELSE s

\* a * b >= c * d for a, c in 0 .. 2^30 and b, d in 0 .. 2^15, the products
\* taken in two limbs so that none leaves 32 bits
WideGE(a, b, c, d) ==
    LET hi(x, y) == (x \div 32768) * y + ((x % 32768) * y) \div 32768
        lo(x, y) == ((x % 32768) * y) % 32768
    IN  \/ hi(a, b) > hi(c, d)
        \/ hi(a, b) = hi(c, d) /\ lo(a, b) >= lo(c, d)

\* l * sqrt(u/v) >= n
RootGE(l, u, v, n) ==
    IF l >= 0 THEN n <= 0 \/ WideGE(l * l, u, n * n, v)
    ELSE n <= 0 /\ WideGE(n * n, v, l * l, u)

\* s * x >= m / 2  and  s * x <= m / 2
ScaledGE(x, s, m) ==
    RootGE(2 * x.q * s * (IF HasRoot(x) THEN x.k ELSE 0), x.u, x.v,
           m * x.q - 2 * s * x.p)

ScaledLE(x, s, m) ==
    RootGE(-2 * x.q * s * (IF HasRoot(x) THEN x.k ELSE 0), x.u, x.v,
           2 * s * x.p - m * x.q)

\* x to the nearest multiple of 1/s, a tie going to the even one; NaN stays NaN
RoundTo(x, s) ==
    IF x.nan THEN NaN
    ELSE LET c == IF HasRoot(x) THEN s * x.k ELSE 0
             est == (s * x.p) \div x.q
                      + (IF c >= 0 THEN 1 ELSE -1) * ISqrt((c * c * x.u) \div x.v)
             near == {h \in (est - 3)..(est + 3) :
                         ScaledGE(x, s, 2 * h - 1) /\ ScaledLE(x, s, 2 * h + 1)}
         IN  Rat(CHOOSE h \in near : Cardinality(near) = 1 \/ h % 2 = 0, s)

\* round(x, 2)
Round2(x) == RoundTo(x, 100)

\* f"{x:.1f}": the number a string of one decimal shows
Format1(x) == RoundTo(x, 10)

RECURSIVE SeqSum(_)
SeqSum(s) == IF s = <<>> THEN 0 ELSE Head(s) + SeqSum(Tail(s))

RECURSIVE SeqSumSq(_)
SeqSumSq(s) == IF s = <<>> THEN 0 ELSE Head(s) * Head(s) + SeqSumSq(Tail(s))

\* Series.mean(): NaN of an empty series
Mean(xs) == IF Len(xs) = 0 THEN NaN ELSE Rat(SeqSum(xs), Len(xs))

\* Series.std(): the sample standard deviation (ddof = 1), NaN of fewer than
\* two values
Std(xs) ==
    LET n == Len(xs)
    IN  IF n <= 1 THEN NaN
        ELSE Root(1, n * SeqSumSq(xs) - SeqSum(xs) * SeqSum(xs), n * (n - 1))

(***************************************************************************)
(* The uploaded table.                                                     *)
(***************************************************************************)
Cities == {"A", "B"}

\* a timestamp is the date yyyymmdd
YearOf(ts) == ts \div 10000

MonthOf(ts) == (ts \div 100) % 100

month_to_season(m) ==
    IF m \in {12, 1, 2} THEN "winter"
    ELSE IF m \in {3, 4, 5} THEN "spring"
    ELSE IF m \in {6, 7, 8} THEN "summer"
    ELSE IF m \in {9, 10, 11} THEN "autumn"
    ELSE "nan"

\* one row of the table after the upload handler has tagged it
TagRow(city, ts, temp) ==
    [city |-> city, timestamp |-> ts, temperature |-> temp,
     year |-> YearOf(ts), month |-> MonthOf(ts),
     season |-> month_to_season(MonthOf(ts))]

SeqsUpTo(S, n) == UNION {[1..m -> S] : m \in 0..n}

ShortStamps == {20000115, 20000116, 20000717}

ShortTemps == {0, 10}

ShortRows == {TagRow(c, ts, t) : c \in Cities, ts \in ShortStamps, t \in ShortTemps}

\* every table of at most MaxRows rows, in every arrival order
ShortTables == SeqsUpTo(ShortRows, MaxRows)

\* one city's daily series of LongLen days, arriving in ascending or in
\* descending order of time
LongTables ==
    {[i \in 1..LongLen |->
        TagRow("A", 20000100 + (IF up THEN i ELSE LongLen + 1 - i), f[i])] :
     f \in [1..LongLen -> ShortTemps], up \in BOOLEAN}

RawTables == ShortTables \cup LongTables

\* the rows of a table in ascending order of (timestamp, temperature)
IsOrdered(t) ==
    \A i \in 1..Len(t) - 1 :
        \/ t[i].timestamp < t[i + 1].timestamp
        \/ t[i].timestamp = t[i + 1].timestamp /\ t[i].temperature <= t[i + 1].temperature

\* the series of one city of exactly m rows, in order of time
CitySeries(city, stamps, temps, m) ==
    {t \in [1..m -> {TagRow(city, ts, x) : ts \in stamps, x \in temps}] : IsOrdered(t)}

\* the tables of at most n rows that hold one city's series after the other's
GroupedTables(stamps, temps, n) ==
    LET A == [m \in 0..n |-> CitySeries("A", stamps, temps, m)]
        B == [m \in 0..n |-> CitySeries("B", stamps, temps, m)]
    IN  UNION {{a \o b : a \in A[ij[1]], b \in B[ij[2]]}
                 \cup {b \o a : a \in A[ij[1]], b \in B[ij[2]]} :
               ij \in {x \in (0..n) \X (0..n) : x[1] + x[2] <= n}}

\* the historical table of the live check: winter and summer rows
LiveStamps == {20000115, 20000716}

LiveTemps == {-5, 0, 5}

LiveUploads == GroupedTables(LiveStamps, LiveTemps, MaxLiveRows)

\* the live readings
Readings == {-11, -5, 2, 5, 6, 11}

TrendTemps == {10, 11, 12}

\* years 10 and 100 apart, and three years in a row
DistantStamps == {20000115, 20100115, 21000115}

YearlyStamps == {20000115, 20010115, 20020115}

TrendTables ==
    GroupedTables(DistantStamps, TrendTemps, MaxTrendRows)
    \cup UNION {CitySeries("A", YearlyStamps, TrendTemps, m) : m \in 0..MaxTrendRows}

NoTable == <<>>

(***************************************************************************)
(* calculate_moving_stats                                                  *)
(***************************************************************************)
RECURSIVE Unique(_)
\* Series.unique(): the values in order of first appearance
Unique(s) ==
    IF s = <<>> THEN <<>>
    ELSE LET r == Unique(SubSeq(s, 1, Len(s) - 1))
             x == s[Len(s)]
         IN  IF \E i \in 1..Len(r) : r[i] = x THEN r ELSE Append(r, x)

CityColumn(t) == [i \in 1..Len(t) |-> t[i].city]

TemperatureColumn(t) == [i \in 1..Len(t) |-> t[i].temperature]

\* mutant: the rows of every city, the filter forgotten
CityRowsUnfiltered(t, city) == t

\* df[df['city'] == city]
CityRows(t, city) == SelectSeq(t, LAMBDA row : row.city = city)

RECURSIVE SortOrders(_, _)
\* sort_values('timestamp'): the rows of t at the positions idx in ascending
\* order of timestamp.  The default sort is not stable, so rows of equal
\* timestamp come out in any order.
SortOrders(t, idx) ==
    IF idx = {} THEN {<<>>}
    ELSE UNION {{<<t[i]>> \o rest : rest \in SortOrders(t, idx \ {i})} :
                i \in {j \in idx : \A l \in idx : t[j].timestamp <= t[l].timestamp}}

sort_values(t) == SortOrders(t, 1..Len(t))

Clip(x, lo, hi) == IF x < lo THEN lo ELSE IF x > hi THEN hi ELSE x

\* mutant: the window placed half a window, rounded up, ahead
WindowOffsetRoundedUp(w) == w \div 2

\* rolling(window = w, center = True) over n rows: the rows start+1 .. end
\* (positions from 1) that the window of position i holds
WindowOffset(w) == (w - 1) \div 2

WindowEnd(i, w, n) == Clip(i + WindowOffset(w), 0, n)

WindowStart(i, w, n) == Clip(i + WindowOffset(w) - w, 0, n)

WindowValues(xs, i, w) ==
    SubSeq(xs, WindowStart(i, w, Len(xs)) + 1, WindowEnd(i, w, Len(xs)))

\* mutant: min_periods = 1, a window cut by the edge still gives a mean
rolling_mean_partial(xs, i, w) == Mean(SubSeq(xs, Clip(i + (w - 1) \div 2 - w, 0, Len(xs)) + 1, Clip(i + (w - 1) \div 2, 0, Len(xs))))

\* min_periods defaults to the window: fewer observations give NaN
rolling_mean(xs, i, w) ==
    IF Len(WindowValues(xs, i, w)) >= w THEN Mean(WindowValues(xs, i, w)) ELSE NaN

rolling_std(xs, i, w) ==
    IF Len(WindowValues(xs, i, w)) >= w THEN Std(WindowValues(xs, i, w)) ELSE NaN

\* one city's sorted rows with the two rolling columns
WithRolling(sorted, w) ==
    [i \in 1..Len(sorted) |->
        [city |-> sorted[i].city, timestamp |-> sorted[i].timestamp,
         temperature |-> sorted[i].temperature, year |-> sorted[i].year,
         month |-> sorted[i].month, season |-> sorted[i].season,
         rolling_mean |-> rolling_mean(TemperatureColumn(sorted), i, w),
         rolling_std |-> rolling_std(TemperatureColumn(sorted), i, w)]]

CityStats(t, city, w) == {WithRolling(s, w) : s \in sort_values(CityRows(t, city))}

RECURSIVE ConcatCities(_, _, _)
\* pd.concat(result_dfs): the cities' tables, one after the other
ConcatCities(t, cities, w) ==
    IF cities = <<>> THEN {<<>>}
    ELSE {first \o rest : first \in CityStats(t, Head(cities), w),
                          rest \in ConcatCities(t, Tail(cities), w)}

\* the tables calculate_moving_stats(df, window) may return
calculate_moving_stats(t, w) == ConcatCities(t, Unique(CityColumn(t)), w)

\* mutant: a sort that breaks ties anew on every call
rerun_with_any_ties(first_df, first_out, t, w) == calculate_moving_stats(t, w)

\* the tables a second call calculate_moving_stats(t, w) may return after a
\* first call on first_df returned first_out: the sort is a deterministic
\* function of its input, so the same table comes out in the same order
rerun_moving_stats(first_df, first_out, t, w) ==
    IF t = first_df THEN {first_out} ELSE calculate_moving_stats(t, w)

(***************************************************************************)
(* detect_anomalies                                                        *)
(***************************************************************************)
\* mutant: a band of one standard deviation
upper_bound_one_sigma(row) == NumAdd(row.rolling_mean, row.rolling_std)

upper_bound(row) == NumAdd(row.rolling_mean, NumScale(2, row.rolling_std))

\* mutant: a null standard deviation counted as 0
lower_bound_null_std_as_zero(row) ==
    IF IsNull(row.rolling_std) THEN row.rolling_mean
    ELSE NumSub(row.rolling_mean, NumScale(2, row.rolling_std))

lower_bound(row) == NumSub(row.rolling_mean, NumScale(2, row.rolling_std))

is_anomaly(row) ==
    \/ NumGT(FromInt(row.temperature), upper_bound(row))
    \/ NumLT(FromInt(row.temperature), lower_bound(row))

anomaly_type(row) ==
    IF NumGT(FromInt(row.temperature), upper_bound(row)) THEN "positive"
    ELSE IF NumLT(FromInt(row.temperature), lower_bound(row)) THEN "negative"
    ELSE "normal"

detect_anomalies(t) ==
    [i \in 1..Len(t) |->
        [city |-> t[i].city, timestamp |-> t[i].timestamp,
         temperature |-> t[i].temperature, year |-> t[i].year,
         month |-> t[i].month, season |-> t[i].season,
         rolling_mean |-> t[i].rolling_mean, rolling_std |-> t[i].rolling_std,
         upper_bound |-> upper_bound(t[i]), lower_bound |-> lower_bound(t[i]),
         is_anomaly |-> is_anomaly(t[i]), anomaly_type |-> anomaly_type(t[i])]]

(***************************************************************************)
(* calculate_long_term_trends                                              *)
(***************************************************************************)
RECURSIVE SortedSeq(_)
\* the numbers of a set in ascending order
SortedSeq(S) ==
    IF S = {} THEN <<>>
    ELSE LET x == CHOOSE y \in S : \A z \in S : y <= z
         IN  <<x>> \o SortedSeq(S \ {x})

\* mutant: the daily values, one entry per row, not grouped by year
yearly_avg_daily(t, city) ==
    LET rows == CityRows(t, city)
    IN  [j \in 1..Len(rows) |->
            [year |-> rows[j].year, sum |-> rows[j].temperature, count |-> 1]]

\* city_df.groupby('year')['temperature'].mean().reset_index(): one row per
\* year in ascending order, the mean as the fraction sum / count
yearly_avg(t, city) ==
    LET rows == CityRows(t, city)
        years == SortedSeq({rows[i].year : i \in 1..Len(rows)})
    IN  [j \in 1..Len(years) |->
            LET temps == TemperatureColumn(
                             SelectSeq(rows, LAMBDA row : row.year = years[j]))
            IN  [year |-> years[j], sum |-> SeqSum(temps), count |-> Len(temps)]]

RECURSIVE CountProduct(_)
CountProduct(ya) == IF ya = <<>> THEN 1 ELSE Head(ya).count * CountProduct(Tail(ya))

\* the yearly means times their common denominator CountProduct(ya)
Scaled(ya) ==
    [j \in 1..Len(ya) |-> ya[j].sum * (CountProduct(ya) \div ya[j].count)]

RECURSIVE Dot(_, _)
Dot(xs, ys) == IF xs = <<>> THEN 0 ELSE Head(xs) * Head(ys) + Dot(Tail(xs), Tail(ys))

YearColumn(ya) == [j \in 1..Len(ya) |-> ya[j].year]

\* slope of np.polyfit(x, y, 1): the least-squares line through the yearly
\* means; through a single point the system is rank deficient and lstsq
\* returns the solution of least norm of the scaled system, slope y/(2x)
polyfit_slope(ya) ==
    LET x == YearColumn(ya)
        y == Scaled(ya)
        n == Len(ya)
    IN  IF n = 1 THEN Rat(ya[1].sum, 2 * ya[1].year * ya[1].count)
        ELSE Rat(n * Dot(x, y) - SeqSum(x) * SeqSum(y),
                 CountProduct(ya) * (n * Dot(x, x) - SeqSum(x) * SeqSum(x)))

\* mutant: the first threshold met with >=
trend_class_inclusive(slope) ==
    IF ~NumLT(slope, Rat(1, 10)) THEN "strong_warming"
    ELSE IF NumGT(slope, Rat(1, 100)) THEN "moderate_warming"
    ELSE IF NumLT(slope, Rat(-1, 10)) THEN "strong_cooling"
    ELSE IF NumLT(slope, Rat(-1, 100)) THEN "moderate_cooling"
    ELSE "stable"

\* the classes, in the source "Сильный рост", "Умеренный рост",
\* "Сильное снижение", "Умеренное снижение", "Стабильный"
trend_class(slope) ==
    IF NumGT(slope, Rat(1, 10)) THEN "strong_warming"
    ELSE IF NumGT(slope, Rat(1, 100)) THEN "moderate_warming"
    ELSE IF NumLT(slope, Rat(-1, 10)) THEN "strong_cooling"
    ELSE IF NumLT(slope, Rat(-1, 100)) THEN "moderate_cooling"
    ELSE "stable"

SeqMax(s) == CHOOSE x \in {s[i] : i \in 1..Len(s)} : \A i \in 1..Len(s) : s[i] <= x

SeqMin(s) == CHOOSE x \in {s[i] : i \in 1..Len(s)} : \A i \in 1..Len(s) : x <= s[i]

\* the row of one city
city_trend(t, city) ==
    LET ya == yearly_avg(t, city)
        slope == polyfit_slope(ya)
    IN  [city |-> city,
         trend_slope |-> slope,
         trend_class |-> trend_class(slope),
         avg_temperature |-> Rat(SeqSum(Scaled(ya)), CountProduct(ya) * Len(ya)),
         temperature_range |->
             Rat(SeqMax(Scaled(ya)) - SeqMin(Scaled(ya)), CountProduct(ya))]

calculate_long_term_trends(t) ==
    LET cities == Unique(CityColumn(t))
    IN  [j \in 1..Len(cities) |-> city_trend(t, cities[j])]

(***************************************************************************)
(* analyze_temperature_anomaly (sync_monitoring.py)                        *)
(***************************************************************************)
\* month_to_season.get(current_month, 'winter')
current_season(month) ==
    IF month \in {12, 1, 2} THEN "winter"
    ELSE IF month \in {3, 4, 5} THEN "spring"
    ELSE IF month \in {6, 7, 8} THEN "summer"
    ELSE IF month \in {9, 10, 11} THEN "autumn"
    ELSE "winter"

\* historical_df[historical_df['city'] == city_name], then the rows of the
\* current season
season_data(historical_df, city_name, month) ==
    SelectSeq(SelectSeq(historical_df, LAMBDA row : row.city = city_name),
              LAMBDA row : row.season = current_season(month))

\* mutant: the anomaly band as wide as the zone band
live_lower_bound_one_sigma(mean_temp, std_temp) == NumSub(mean_temp, std_temp)

live_lower_bound(mean_temp, std_temp) == NumSub(mean_temp, NumScale(2, std_temp))

live_upper_bound(mean_temp, std_temp) == NumAdd(mean_temp, NumScale(2, std_temp))

\* mutant: the zone taken from a band of three standard deviations
temperature_zone_three_sigma(current_temp, mean_temp, std_temp) ==
    IF NumLT(FromInt(current_temp), NumSub(mean_temp, NumScale(3, std_temp)))
    THEN "below_average"
    ELSE IF NumGT(FromInt(current_temp), NumAdd(mean_temp, NumScale(3, std_temp)))
         THEN "above_average"
         ELSE "within_normal"

\* mutant: the zone bounds met with <= and >=
temperature_zone_inclusive(current_temp, mean_temp, std_temp) ==
    IF ~NumGT(FromInt(current_temp), NumSub(mean_temp, std_temp)) THEN "below_average"
    ELSE IF ~NumLT(FromInt(current_temp), NumAdd(mean_temp, std_temp)) THEN "above_average"
    ELSE "within_normal"

\* the zones, in the source "Ниже среднего", "Выше среднего",
\* "В пределах нормы"
temperature_zone(current_temp, mean_temp, std_temp) ==
    IF NumLT(FromInt(current_temp), NumSub(mean_temp, std_temp)) THEN "below_average"
    ELSE IF NumGT(FromInt(current_temp), NumAdd(mean_temp, std_temp)) THEN "above_average"
    ELSE "within_normal"

\* the dict returned: the error result has the one key "error", the verdict
\* has the keys below; anomaly_type None is "None"
analyze_temperature_anomaly(city_name, current_temp, historical_df, month) ==
    LET data == season_data(historical_df, city_name, month)
        mean_temp == Mean(TemperatureColumn(data))
        std_temp == Std(TemperatureColumn(data))
        lower == live_lower_bound(mean_temp, std_temp)
        upper == live_upper_bound(mean_temp, std_temp)
        anomalous == \/ NumLT(FromInt(current_temp), lower)
                     \/ NumGT(FromInt(current_temp), upper)
    IN  IF Len(data) = 0 THEN [error |-> "no historical data"]
        ELSE [city |-> city_name,
              current_temperature |-> current_temp,
              season |-> current_season(month),
              historical_mean |-> Round2(mean_temp),
              historical_std |-> Round2(std_temp),
              normal_range |-> <<Round2(lower), Round2(upper)>>,
              is_anomaly |-> anomalous,
              anomaly_type |->
                  IF anomalous
                  THEN IF NumLT(FromInt(current_temp), lower)
                       THEN "negative" ELSE "positive"
                  ELSE "None",
              temperature_zone |-> temperature_zone(current_temp, mean_temp, std_temp),
              deviation_from_mean |->
                  Round2(NumSub(FromInt(current_temp), mean_temp))]

(***************************************************************************)
(* The reading source: get_current_temperature_sync and                    *)
(* get_current_temperature_async.                                          *)
(***************************************************************************)
\* Python's None, where a number and where a string is expected
NoneNum == [none |-> TRUE, val |-> 0]

NoneStr == [none |-> TRUE, val |-> ""]

Some(x) == [none |-> FALSE, val |-> x]

IsNone(x) == x.none

\* what the request meets: a response with a status and a body, or an
\* exception of the HTTP library (no connection, timeout after 10 s).  A body
\* is well formed when it is JSON that has the keys main.temp and
\* weather[0].description; temp and description are the values under these
\* keys, which JSON allows to be null
ReadingTemps == {0, 11}

Response(kind, status, well_formed, temp, description) ==
    [kind |-> kind, status |-> status, well_formed |-> well_formed,
     temp |-> temp, description |-> description]

\* a 200 with a body that lacks the keys or is no JSON
Malformed == Response("response", 200, FALSE, NoneNum, NoneStr)

Failures(codes) ==
    {Response("response", st, FALSE, NoneNum, NoneStr) : st \in codes}
    \cup {Response(k, 0, FALSE, NoneNum, NoneStr) : k \in {"connection_error", "timeout"}}

\* the responses the callers of the live check are run against
Responses ==
    {Response("response", 200, TRUE, Some(t), Some("clear sky")) : t \in ReadingTemps}
    \cup {Malformed}
    \cup Failures({401, 404})

\* the responses the two fetch functions are run against
FetchTemps == -MaxTemp..MaxTemp

FetchResponses ==
    {Response("response", 200, TRUE, t, d) :
        t \in {NoneNum} \cup {Some(x) : x \in FetchTemps},
        d \in {NoneStr, Some("clear sky"), Some("rain")}}
    \cup {Malformed}
    \cup Failures({400, 401, 404, 429, 500, 503})

Triple(temperature, status, description) ==
    [temperature |-> temperature, status |-> status, description |-> description]

get_current_temperature_sync(response) ==
    IF response.kind # "response" THEN Triple(NoneNum, NoneNum, NoneStr)
    ELSE IF response.status = 200
         THEN IF response.well_formed
              THEN Triple(response.temp, Some(response.status), response.description)
              \* KeyError of data['main']['temp'], caught by except Exception
              ELSE Triple(NoneNum, NoneNum, NoneStr)
         ELSE Triple(NoneNum, Some(response.status), NoneStr)

\* raised: the KeyError of a malformed body leaves _process_response
process_response(response) ==
    IF response.status = 200
    THEN IF response.well_formed
         THEN [raised |-> FALSE,
               value |-> Triple(response.temp, Some(response.status),
                                response.description)]
         ELSE [raised |-> TRUE, value |-> Triple(NoneNum, NoneNum, NoneStr)]
    ELSE [raised |-> FALSE, value |-> Triple(NoneNum, Some(response.status), NoneStr)]

\* mutant: the status of the response kept when reading its body raises
get_current_temperature_async_status_kept(response) ==
    IF response.kind # "response" THEN Triple(NoneNum, NoneNum, NoneStr)
    ELSE IF response.status = 200 /\ ~response.well_formed
         THEN Triple(NoneNum, Some(response.status), NoneStr)
         ELSE Triple(response.temp, Some(response.status), response.description)

get_current_temperature_async(response) ==
    IF response.kind # "response" THEN Triple(NoneNum, NoneNum, NoneStr)
    ELSE IF process_response(response).raised THEN Triple(NoneNum, NoneNum, NoneStr)
         ELSE process_response(response).value

(***************************************************************************)
(* analyze_temperature_anomaly (async_monitoring.py)                       *)
(***************************************************************************)
\* mutant: December counted as autumn
current_season_december_autumn(month) ==
    IF month \in {1, 2} THEN "winter"
    ELSE IF month \in {3, 4, 5} THEN "spring"
    ELSE IF month \in {6, 7, 8} THEN "summer"
    ELSE IF month \in {9, 10, 11, 12} THEN "autumn"
    ELSE "winter"

\* month_to_season.get(current_month, 'winter'), the copy of async_monitoring.py
current_season_async(month) ==
    IF month \in {12, 1, 2} THEN "winter"
    ELSE IF month \in {3, 4, 5} THEN "spring"
    ELSE IF month \in {6, 7, 8} THEN "summer"
    ELSE IF month \in {9, 10, 11} THEN "autumn"
    ELSE "winter"

analyze_temperature_anomaly_async(city_name, current_temp, historical_df, month) ==
    LET city_data == SelectSeq(historical_df, LAMBDA row : row.city = city_name)
        season == current_season_async(month)
        data == SelectSeq(city_data, LAMBDA row : row.season = season)
        mean_temp == Mean(TemperatureColumn(data))
        std_temp == Std(TemperatureColumn(data))
        lower == NumSub(mean_temp, NumScale(2, std_temp))
        upper == NumAdd(mean_temp, NumScale(2, std_temp))
        anomalous == \/ NumLT(FromInt(current_temp), lower)
                     \/ NumGT(FromInt(current_temp), upper)
    IN  IF Len(data) = 0 THEN [error |-> "no historical data"]
        ELSE [city |-> city_name,
              current_temperature |-> current_temp,
              season |-> season,
              historical_mean |-> Round2(mean_temp),
              historical_std |-> Round2(std_temp),
              normal_range |-> <<Round2(lower), Round2(upper)>>,
              is_anomaly |-> anomalous,
              anomaly_type |->
                  IF anomalous
                  THEN IF NumLT(FromInt(current_temp), lower)
                       THEN "negative" ELSE "positive"
                  ELSE "None",
              temperature_zone |->
                  IF NumLT(FromInt(current_temp), NumSub(mean_temp, std_temp))
                  THEN "below_average"
                  ELSE IF NumGT(FromInt(current_temp), NumAdd(mean_temp, std_temp))
                       THEN "above_average"
                       ELSE "within_normal",
              deviation_from_mean |->
                  Round2(NumSub(FromInt(current_temp), mean_temp))]

(***************************************************************************)
(* The callers of the live check.                                          *)
(***************************************************************************)
\* what a monitoring loop prints for a reading with its verdict; reading a
\* key the dict lacks raises KeyError
PrintedVerdict(city, reading, a) ==
    [city |-> city, kind |-> "verdict",
     temperature |-> Format1(FromInt(reading.temperature.val)),
     description |-> reading.description.val,
     season |-> a.season,
     historical_mean |-> a.historical_mean,
     normal_range |-> <<Format1(a.normal_range[1]), Format1(a.normal_range[2])>>,
     deviation_from_mean |-> Format1(a.deviation_from_mean),
     anomaly |-> IF a.is_anomaly THEN a.anomaly_type ELSE "in the norm"]

PrintedFailure(city, reading) ==
    [city |-> city, kind |-> "failed", status |-> reading.status]

\* the lines printed before analysis['season'] raises
PrintedReading(city, reading) ==
    [city |-> city, kind |-> "reading",
     temperature |-> Format1(FromInt(reading.temperature.val)),
     description |-> reading.description.val]

RECURSIVE SyncLoop(_, _, _, _)
\* the loop of test_sync_monitoring over test_cities; responses[i] is what the
\* request of the i-th city meets
SyncLoop(test_cities, responses, historical_df, month) ==
    IF test_cities = <<>> THEN [printed |-> <<>>, raised |-> "none"]
    ELSE LET city == Head(test_cities)
             reading == get_current_temperature_sync(Head(responses))
             a == analyze_temperature_anomaly(city, reading.temperature.val,
                                              historical_df, month)
             rest == SyncLoop(Tail(test_cities), Tail(responses), historical_df, month)
         IN  IF ~IsNone(reading.temperature)
             THEN IF "season" \notin DOMAIN a
                  THEN [printed |-> <<PrintedReading(city, reading)>>,
                        raised |-> "KeyError"]
                  ELSE [printed |-> <<PrintedVerdict(city, reading, a)>> \o rest.printed,
                        raised |-> rest.raised]
             ELSE [printed |-> <<PrintedFailure(city, reading)>> \o rest.printed,
                   raised |-> rest.raised]

test_sync_monitoring(historical_df, test_cities, responses, month) ==
    SyncLoop(test_cities, responses, historical_df, month)

RECURSIVE AsyncLoop(_, _, _, _)
\* the loop of test_async_monitoring over zip(test_cities, results)
AsyncLoop(test_cities, results, historical_df, month) ==
    IF test_cities = <<>> THEN [printed |-> <<>>, raised |-> "none"]
    ELSE LET city == Head(test_cities)
             reading == Head(results)
             a == analyze_temperature_anomaly_async(city, reading.temperature.val,
                                                    historical_df, month)
             rest == AsyncLoop(Tail(test_cities), Tail(results), historical_df, month)
         IN  IF ~IsNone(reading.temperature)
             THEN IF "season" \notin DOMAIN a
                  THEN [printed |-> <<PrintedReading(city, reading)>>,
                        raised |-> "KeyError"]
                  ELSE [printed |-> <<PrintedVerdict(city, reading, a)>> \o rest.printed,
                        raised |-> rest.raised]
             ELSE [printed |-> <<PrintedFailure(city, reading)>> \o rest.printed,
                   raised |-> rest.raised]

\* mutant: the results in the order in which the requests completed
gather_as_completed(slots, order) == [k \in 1..Len(order) |-> slots[order[k]]]

\* asyncio.gather(*tasks) once every task is done: slots[i] is what task i
\* returned, order the order in which the tasks completed; the result list
\* follows the order of the tasks
gather(slots, order) == [i \in 1..Len(order) |-> slots[i]]

\* asyncio.gather returns the results in the order of the tasks
test_async_monitoring(historical_df, test_cities, responses, month) ==
    AsyncLoop(test_cities,
              [i \in 1..Len(test_cities) |-> get_current_temperature_async(responses[i])],
              historical_df, month)

\* the dashboard's check of one city: what it shows
single_city_check(selected_city, response, historical_df, month) ==
    LET reading == get_current_temperature_sync(response)
        a == analyze_temperature_anomaly(selected_city, reading.temperature.val,
                                         historical_df, month)
    IN  IF ~IsNone(reading.status) /\ reading.status.val = 401
        THEN [shown |-> "invalid_api_key", city |-> selected_city]
        ELSE IF ~IsNone(reading.temperature)
             THEN IF "error" \in DOMAIN a
                  THEN [shown |-> "error", city |-> selected_city, message |-> a.error]
                  ELSE [shown |-> "verdict", city |-> selected_city,
                        temperature |-> Format1(FromInt(reading.temperature.val)),
                        delta |-> Format1(a.deviation_from_mean),
                        description |-> reading.description.val,
                        season |-> a.season,
                        historical_mean |-> a.historical_mean,
                        historical_std |-> a.historical_std,
                        normal_range |-> <<Format1(a.normal_range[1]),
                                           Format1(a.normal_range[2])>>,
                        anomaly |-> IF a.is_anomaly
                                    THEN IF a.anomaly_type = "positive"
                                         THEN "positive" ELSE "negative"
                                    ELSE "in the norm",
                        temperature_zone |-> a.temperature_zone]
             ELSE [shown |-> "fetch_failed", city |-> selected_city,
                   \* if status: the code is written out
                   status |-> reading.status]

RECURSIVE CompareLoop(_, _, _, _)
\* the loop of the dashboard's comparison: the rows of the result table
CompareLoop(selected_cities, responses, historical_df, month) ==
    IF selected_cities = <<>> THEN <<>>
    ELSE LET city == Head(selected_cities)
             reading == get_current_temperature_sync(Head(responses))
             a == analyze_temperature_anomaly(city, reading.temperature.val,
                                              historical_df, month)
             rest == CompareLoop(Tail(selected_cities), Tail(responses),
                                 historical_df, month)
         IN  IF ~IsNone(reading.temperature) /\ "error" \notin DOMAIN a
             THEN <<[city |-> city,
                     temperature |-> Format1(FromInt(reading.temperature.val)),
                     deviation |-> Format1(a.deviation_from_mean),
                     season |-> a.season,
                     status |-> IF a.is_anomaly THEN "anomaly" ELSE "norm",
                     anomaly_type |-> IF a.is_anomaly THEN a.anomaly_type ELSE "none"]>>
                  \o rest
             ELSE rest

multi_city_compare(selected_cities, responses, historical_df, month) ==
    LET results == CompareLoop(selected_cities, responses, historical_df, month)
    IN  [shown |-> IF results # <<>> THEN "table" ELSE "warning", results |-> results]

\* the table the upload handler leaves in the session for a table uploaded
Processed(t) == {detect_anomalies(out) : out \in calculate_moving_stats(t, DefaultWindow)}

(***************************************************************************)
(* The analysis pipeline on one table.                                     *)
(***************************************************************************)
Init ==
    /\ pc = "loaded"
    /\ df \in RawTables
    /\ window \in 1..MaxWindow
    /\ stats_df = NoTable
    /\ processed_df = NoTable
    /\ trends_df = NoTable
    /\ now_month = 1
    /\ analysis = <<>>
    /\ caller = <<>>

\* pd.concat of no tables raises ValueError
CalculateMovingStatsRaises ==
    /\ pc = "loaded"
    /\ df = <<>>
    /\ pc' = "raised"
    /\ UNCHANGED <<df, window, stats_df, processed_df, trends_df, now_month,
                   analysis, caller>>

CalculateMovingStats ==
    /\ pc = "loaded"
    /\ df # <<>>
    /\ \E out \in calculate_moving_stats(df, window) : stats_df' = out
    /\ pc' = "stats"
    /\ UNCHANGED <<df, window, processed_df, trends_df, now_month, analysis, caller>>

\* detect_anomalies adds its columns to the table it is given and returns it
DetectAnomalies ==
    /\ pc = "stats"
    /\ processed_df' = detect_anomalies(stats_df)
    /\ stats_df' = processed_df'
    /\ pc' = "anomalies"
    /\ UNCHANGED <<df, window, trends_df, now_month, analysis, caller>>

CalculateLongTermTrends ==
    /\ pc = "anomalies"
    /\ trends_df' = calculate_long_term_trends(processed_df)
    /\ pc' = "trends"
    /\ UNCHANGED <<df, window, stats_df, processed_df, now_month, analysis, caller>>

Next ==
    \/ CalculateMovingStatsRaises
    \/ CalculateMovingStats
    \/ DetectAnomalies
    \/ CalculateLongTermTrends

Spec == Init /\ [][Next]_vars

(***************************************************************************)
(* The pipeline as the upload handler runs it, window = 30, on tables of   *)
(* several years.                                                          *)
(***************************************************************************)
InitTrend ==
    /\ pc = "loaded"
    /\ df \in TrendTables
    /\ window = DefaultWindow
    /\ stats_df = NoTable
    /\ processed_df = NoTable
    /\ trends_df = NoTable
    /\ now_month = 1
    /\ analysis = <<>>
    /\ caller = <<>>

SpecTrend == InitTrend /\ [][Next]_vars

(***************************************************************************)
(* The live check of one reading against a historical table.               *)
(***************************************************************************)
InitLive ==
    /\ pc = "idle"
    /\ df \in LiveUploads \ {<<>>}
    /\ processed_df \in Processed(df)
    /\ now_month \in 1..12
    /\ window = DefaultWindow
    /\ stats_df = processed_df
    /\ trends_df = calculate_long_term_trends(processed_df)
    /\ analysis = <<>>
    /\ caller = <<>>

\* one call analyze_temperature_anomaly(city_name, current_temp, processed_df);
\* caller keeps the arguments of the call
Analyze ==
    /\ pc = "idle"
    /\ \E city_name \in Cities, current_temp \in Readings :
          /\ analysis' = analyze_temperature_anomaly(city_name, current_temp,
                                                     processed_df, now_month)
          /\ caller' = [city_name |-> city_name, current_temp |-> current_temp]
    /\ pc' = "analyzed"
    /\ UNCHANGED <<df, window, stats_df, processed_df, trends_df, now_month>>

NextLive == Analyze

SpecLive == InitLive /\ [][NextLive]_vars

(***************************************************************************)
(* The callers of the live check: the dashboard's check of one city, its   *)
(* comparison of several, and the two monitoring loops.                    *)
(***************************************************************************)
CallerTemps == {0}

CallerUploads == GroupedTables(LiveStamps, CallerTemps, MaxCallerRows)

\* a winter and a summer month
CallerMonths == {1, 7}

\* the cities asked for: those of the table and one it never holds
TestCities == Cities \cup {"C"}

\* cities = sorted(processed_df['city'].unique()): the choices offered
OfferedCities(t) == {CityColumn(t)[i] : i \in 1..Len(t)}

\* the lists of at most n different cities out of S
CityLists(S, n) ==
    {l \in SeqsUpTo(S, n) : \A i, j \in 1..Len(l) : i # j => l[i] # l[j]}

InitCallers ==
    /\ pc = "idle"
    /\ df \in CallerUploads
    /\ processed_df \in (IF df = <<>> THEN {NoTable} ELSE Processed(df))
    /\ now_month \in CallerMonths
    /\ window = DefaultWindow
    /\ stats_df = processed_df
    /\ trends_df = calculate_long_term_trends(processed_df)
    /\ analysis = <<>>
    /\ caller = <<>>

\* "Получить текущую температуру": the selectbox offers the table's cities
SingleCityCheck ==
    /\ pc = "idle"
    /\ processed_df # NoTable
    /\ \E selected_city \in OfferedCities(processed_df), response \in Responses :
          caller' = [op |-> "single_city_check",
                     cities |-> <<selected_city>>, responses |-> <<response>>,
                     raised |-> "none",
                     out |-> single_city_check(selected_city, response,
                                               processed_df, now_month)]
    /\ pc' = "done"
    /\ UNCHANGED <<df, window, stats_df, processed_df, trends_df, now_month, analysis>>

\* "Сравнить города": the multiselect offers the table's cities
MultiCityCompare ==
    /\ pc = "idle"
    /\ processed_df # NoTable
    /\ \E selected_cities \in CityLists(OfferedCities(processed_df), MaxBatch) \ {<<>>} :
          \E responses \in [1..Len(selected_cities) -> Responses] :
              caller' = [op |-> "multi_city_compare",
                         cities |-> selected_cities, responses |-> responses,
                         raised |-> "none",
                         out |-> multi_city_compare(selected_cities, responses,
                                                    processed_df, now_month)]
    /\ pc' = "done"
    /\ UNCHANGED <<df, window, stats_df, processed_df, trends_df, now_month, analysis>>

SyncMonitoring ==
    /\ pc = "idle"
    /\ \E test_cities \in CityLists(TestCities, MaxBatch) :
          \E responses \in [1..Len(test_cities) -> Responses] :
              LET run == test_sync_monitoring(processed_df, test_cities, responses,
                                              now_month)
              IN  caller' = [op |-> "test_sync_monitoring",
                             cities |-> test_cities, responses |-> responses,
                             raised |-> run.raised, out |-> run.printed]
    /\ pc' = "done"
    /\ UNCHANGED <<df, window, stats_df, processed_df, trends_df, now_month, analysis>>

AsyncMonitoring ==
    /\ pc = "idle"
    /\ \E test_cities \in CityLists(TestCities, MaxBatch) :
          \E responses \in [1..Len(test_cities) -> Responses] :
              LET run == test_async_monitoring(processed_df, test_cities, responses,
                                               now_month)
              IN  caller' = [op |-> "test_async_monitoring",
                             cities |-> test_cities, responses |-> responses,
                             raised |-> run.raised, out |-> run.printed]
    /\ pc' = "done"
    /\ UNCHANGED <<df, window, stats_df, processed_df, trends_df, now_month, analysis>>

NextCallers == SingleCityCheck \/ MultiCityCompare \/ SyncMonitoring \/ AsyncMonitoring

SpecCallers == InitCallers /\ [][NextCallers]_vars

(***************************************************************************)
(* Claims about the analysis pipeline.                                     *)
(***************************************************************************)
RowsOf(t) == {t[i] : i \in 1..Len(t)}

CitiesOf(t) == {t[i].city : i \in 1..Len(t)}

\* C1: every row produced by detect_anomalies has anomaly_type positive
\* exactly when temperature > rolling_mean + 2*rolling_std, negative exactly
\* when temperature < rolling_mean - 2*rolling_std, normal otherwise, and
\* is_anomaly exactly when anomaly_type is not normal.
C1_AnomalyInvariant ==
    pc = "anomalies" =>
        \A row \in RowsOf(processed_df) :
            LET above == NumGT(FromInt(row.temperature),
                               NumAdd(row.rolling_mean, NumAdd(row.rolling_std, row.rolling_std)))
                below == NumLT(FromInt(row.temperature),
                               NumSub(row.rolling_mean, NumAdd(row.rolling_std, row.rolling_std)))
            IN  /\ row.anomaly_type = "positive" <=> above
                /\ row.anomaly_type = "negative" <=> below
                /\ row.anomaly_type = "normal" <=> (~above /\ ~below)
                /\ row.is_anomaly <=> row.anomaly_type # "normal"

\* a table with a positive and a table with a negative anomaly are produced
C1_Witness ==
    /\ pc = "anomalies"
    /\ \E row \in RowsOf(processed_df) :
          row.anomaly_type = "positive" /\ row.is_anomaly
    /\ \E row \in RowsOf(processed_df) : row.anomaly_type = "normal"

C1_WitnessNegative ==
    /\ pc = "anomalies"
    /\ \E row \in RowsOf(processed_df) :
          row.anomaly_type = "negative" /\ row.is_anomaly

\* C7: for every window > 0, a city's series of length n < window comes back
\* without an error and with rolling_mean and rolling_std null in every row.
C7_ShortSeriesAllNull ==
    /\ pc = "raised" => df = <<>>
    /\ pc = "stats" =>
          /\ Len(stats_df) = Len(df)
          /\ \A c \in CitiesOf(df) :
                Len(CityRows(df, c)) < window =>
                    \A row \in RowsOf(CityRows(stats_df, c)) :
                        IsNull(row.rolling_mean) /\ IsNull(row.rolling_std)

C7_Witness ==
    /\ pc = "stats"
    /\ window > 2
    /\ \E c \in CitiesOf(df) :
          /\ Len(CityRows(df, c)) = window - 1
          /\ \A row \in RowsOf(CityRows(stats_df, c)) :
                IsNull(row.rolling_mean) /\ IsNull(row.rolling_std)

IsTimeSorted(t) == \A i, j \in 1..Len(t) : i < j => t[i].timestamp <= t[j].timestamp

\* the rows of a table the pipeline has enriched, as rows of the upload
Plain(t) ==
    [i \in 1..Len(t) |->
        TagRow(t[i].city, t[i].timestamp, t[i].temperature)]

Count(t, row) == Cardinality({i \in 1..Len(t) : t[i] = row})

SameRows(s, t) ==
    /\ Len(s) = Len(t)
    /\ \A row \in RowsOf(s) \cup RowsOf(t) : Count(s, row) = Count(t, row)

\* C8 as stated: for a city's series of length n >= window the null positions
\* are exactly the leading window/2 and the trailing window/2 positions of the
\* time-sorted series.
C8_AsStated ==
    pc = "stats" =>
        \A c \in CitiesOf(df) :
            LET s == CityRows(stats_df, c)
                n == Len(s)
            IN  n >= window =>
                    \A i \in 1..n :
                        LET edge == i <= window \div 2 \/ i > n - window \div 2
                        IN  /\ IsNull(s[i].rolling_mean) <=> edge
                            /\ IsNull(s[i].rolling_std) <=> edge

\* C8 as amended: the city's rows come back sorted by time; rolling_mean is
\* null exactly at the leading floor(window/2) and the trailing
\* floor((window-1)/2) positions, rolling_std there and, for window = 1,
\* everywhere; every other position i holds the mean and the sample standard
\* deviation of the rows i - floor(window/2) .. i + floor((window-1)/2).
C8_CentredWindow ==
    pc = "stats" =>
        \A c \in CitiesOf(df) :
            LET s == CityRows(stats_df, c)
                n == Len(s)
                before == window \div 2
                after == (window - 1) \div 2
                xs == TemperatureColumn(s)
            IN  /\ IsTimeSorted(s)
                /\ SameRows(Plain(s), CityRows(df, c))
                /\ n >= window =>
                      \A i \in 1..n :
                          LET edge == i <= before \/ i > n - after
                              win == SubSeq(xs, i - before, i + after)
                          IN  /\ IsNull(s[i].rolling_mean) <=> edge
                              /\ IsNull(s[i].rolling_std) <=> (edge \/ window = 1)
                              /\ ~edge =>
                                    /\ Len(win) = window
                                    /\ NumEq(s[i].rolling_mean,
                                             Rat(SeqSum(win), window))
                              /\ ~edge /\ window > 1 =>
                                    \* std >= 0 and std^2 is the sample variance
                                    /\ s[i].rolling_std.p = 0
                                    /\ s[i].rolling_std.k = 1
                                    /\ s[i].rolling_std.u * window * (window - 1)
                                         = s[i].rolling_std.v *
                                           (window * SeqSumSq(win)
                                              - SeqSum(win) * SeqSum(win))

\* an even window over a longer series: two leading nulls, one trailing
C8_Witness ==
    /\ pc = "stats"
    /\ window = 4
    /\ \E c \in CitiesOf(df) :
          LET s == CityRows(stats_df, c)
          IN  /\ Len(s) = 6
              /\ IsNull(s[2].rolling_mean) /\ ~IsNull(s[3].rolling_mean)
              /\ ~IsNull(s[5].rolling_std) /\ IsNull(s[6].rolling_std)
              /\ s[3].rolling_mean # s[4].rolling_mean

\* the table with only the rows of one city
OnlyCity(t, c) == SelectSeq(t, LAMBDA row : row.city = c)

\* C9: the rolling statistics of a city's rows depend on that city's rows
\* alone: a table and the table cut down to one city's rows give that city
\* the same enriched rows, so any two tables that agree on the city's rows do.
C9_PerCityIsolation ==
    pc = "stats" =>
        \A c \in CitiesOf(df) :
            LET alone == calculate_moving_stats(OnlyCity(df, c), window)
                here == {OnlyCity(out, c) : out \in calculate_moving_stats(df, window)}
            IN  /\ here = alone
                /\ OnlyCity(stats_df, c) \in alone

\* two cities interleaved, each with a defined rolling mean
C9_Witness ==
    /\ pc = "stats"
    /\ Len(df) = 3
    /\ df[1].city = "A" /\ df[2].city = "B" /\ df[3].city = "A"
    /\ \E row \in RowsOf(stats_df) : row.city = "A" /\ ~IsNull(row.rolling_std)

Swap(t, i, j) ==
    [l \in 1..Len(t) |-> IF l = i THEN t[j] ELSE IF l = j THEN t[i] ELSE t[l]]

\* the arrival orders that differ from t by exchanging two rows
Exchanges(t) == {Swap(t, i, j) : i, j \in 1..Len(t)}

\* C10: whatever the arrival order of the rows, each row (city, timestamp,
\* temperature) receives the same rolling_mean and rolling_std.
C10_ArrivalOrderIrrelevant ==
    pc = "stats" =>
        \A other \in Exchanges(df) :
            \A out \in calculate_moving_stats(other, window) :
                RowsOf(out) = RowsOf(stats_df)

(***************************************************************************)
(* Claims about the trend table.                                           *)
(***************************************************************************)
\* C2: the class of every slope p/q is the first match of  > 0.1 strong
\* warming, > 0.01 moderate warming, < -0.1 strong cooling, < -0.01 moderate
\* cooling, else stable: the classes are the five intervals below, and the
\* boundaries 0.1, 0.01, -0.1, -0.01 fall to moderate warming, stable,
\* moderate cooling, stable.
C2_TrendClassification ==
    pc = "trends" =>
        \A row \in RowsOf(trends_df) :
            LET p == row.trend_slope.p
                q == row.trend_slope.q
                class == row.trend_class
            IN  /\ q > 0
                /\ row.trend_slope = polyfit_slope(yearly_avg(df, row.city))
                /\ class = "strong_warming" <=> 10 * p > q
                /\ class = "moderate_warming" <=> (100 * p > q /\ 10 * p <= q)
                /\ class = "strong_cooling" <=> 10 * p < -q
                /\ class = "moderate_cooling" <=> (100 * p < -q /\ 10 * p >= -q)
                /\ class = "stable" <=> (100 * p <= q /\ 100 * p >= -q)
                /\ 10 * p = q => class = "moderate_warming"
                /\ 100 * p = q => class = "stable"
                /\ 10 * p = -q => class = "moderate_cooling"
                /\ 100 * p = -q => class = "stable"

\* one table with a slope of exactly 0.1 and a slope of exactly -0.01
C2_Witness ==
    /\ pc = "trends"
    /\ \E row \in RowsOf(trends_df) :
          /\ 10 * row.trend_slope.p = row.trend_slope.q
          /\ row.trend_class = "moderate_warming"
    /\ \E row \in RowsOf(trends_df) :
          /\ 100 * row.trend_slope.p = -row.trend_slope.q
          /\ row.trend_class = "stable"

C2_WitnessCooling ==
    /\ pc = "trends"
    /\ \E row \in RowsOf(trends_df) :
          /\ 10 * row.trend_slope.p = -row.trend_slope.q
          /\ row.trend_class = "moderate_cooling"
    /\ \E row \in RowsOf(trends_df) :
          /\ 100 * row.trend_slope.p = row.trend_slope.q
          /\ row.trend_class = "stable"

C2_WitnessClasses ==
    /\ pc = "trends"
    /\ \E row \in RowsOf(trends_df) : row.trend_class = "strong_warming"
    /\ \E row \in RowsOf(trends_df) : row.trend_class = "strong_cooling"

(***************************************************************************)
(* Claims about the live check.                                            *)
(***************************************************************************)
\* the rows of df of the city asked for in the season of today's month
Baseline ==
    {i \in 1..Len(processed_df) :
        /\ processed_df[i].city = caller.city_name
        /\ processed_df[i].season = month_to_season(now_month)}

RECURSIVE SumOver(_, _)
SumOver(f, S) ==
    IF S = {} THEN 0
    ELSE LET i == CHOOSE j \in S : TRUE IN f[i] + SumOver(f, S \ {i})

BaselineN == Cardinality(Baseline)

BaselineSum ==
    SumOver([i \in 1..Len(processed_df) |-> processed_df[i].temperature], Baseline)

BaselineSumSq ==
    SumOver([i \in 1..Len(processed_df) |->
                processed_df[i].temperature * processed_df[i].temperature], Baseline)

\* n * (reading - mean)  and  n * (n - 1) * variance
Deviation == caller.current_temp * BaselineN - BaselineSum

Spread == BaselineN * BaselineSumSq - BaselineSum * BaselineSum

\* |reading - mean| > m * std, squared and cleared of fractions; of a single
\* row the sample deviation is undefined and nothing is beyond it
Beyond(m) == Deviation * Deviation * (BaselineN - 1) > m * m * BaselineN * Spread

\* C3: with historical rows of the city in the current season, is_anomaly is
\* (reading < mean - 2*std or reading > mean + 2*std); anomaly_type is
\* negative below the lower bound, positive above the upper bound and null
\* exactly when is_anomaly is false; deviation_from_mean is reading - mean
\* to two decimals.
C3_LiveAnomaly ==
    pc = "analyzed" /\ BaselineN > 0 =>
        /\ DOMAIN analysis = {"city", "current_temperature", "season",
                              "historical_mean", "historical_std", "normal_range",
                              "is_anomaly", "anomaly_type", "temperature_zone",
                              "deviation_from_mean"}
        /\ analysis.is_anomaly <=> Beyond(2)
        /\ analysis.anomaly_type = "negative" <=> (Deviation < 0 /\ Beyond(2))
        /\ analysis.anomaly_type = "positive" <=> (Deviation > 0 /\ Beyond(2))
        /\ analysis.anomaly_type = "None" <=> ~analysis.is_anomaly
        /\ analysis.deviation_from_mean.q = 100
        /\ LET off == 100 * Deviation - analysis.deviation_from_mean.p * BaselineN
           IN  -BaselineN <= 2 * off /\ 2 * off <= BaselineN

\* mean 0, std 5, reading 11: anomalous, positive, 11.0 from the mean
C3_Witness ==
    /\ pc = "analyzed"
    /\ BaselineN = 3 /\ BaselineSum = 0 /\ Spread = 25 * 3 * 2
    /\ caller.current_temp = 11
    /\ analysis.is_anomaly /\ analysis.anomaly_type = "positive"
    /\ analysis.deviation_from_mean = Rat(1100, 100)
    /\ analysis.temperature_zone = "above_average"

\* the same baseline, reading 2: not anomalous
C3_WitnessNormal ==
    /\ pc = "analyzed"
    /\ BaselineN = 3 /\ BaselineSum = 0 /\ Spread = 25 * 3 * 2
    /\ caller.current_temp = 2
    /\ ~analysis.is_anomaly /\ analysis.anomaly_type = "None"
    /\ analysis.temperature_zone = "within_normal"

C3_WitnessNegative ==
    /\ pc = "analyzed"
    /\ BaselineN > 1
    /\ analysis.is_anomaly /\ analysis.anomaly_type = "negative"

\* C4: temperature_zone is below_average when reading < mean - std,
\* above_average when reading > mean + std, within_normal otherwise, a reading
\* exactly at mean - std or mean + std included; the 2-sigma test plays no part.
C4_TemperatureZone ==
    pc = "analyzed" /\ BaselineN > 0 =>
        /\ analysis.temperature_zone = "below_average" <=> (Deviation < 0 /\ Beyond(1))
        /\ analysis.temperature_zone = "above_average" <=> (Deviation > 0 /\ Beyond(1))
        /\ analysis.temperature_zone = "within_normal" <=> ~Beyond(1)

\* a reading exactly one standard deviation above the mean
C4_Witness ==
    /\ pc = "analyzed"
    /\ BaselineN > 1 /\ Deviation > 0
    /\ Deviation * Deviation * (BaselineN - 1) = BaselineN * Spread
    /\ analysis.temperature_zone = "within_normal"

\* a reading above the average and not anomalous
C4_WitnessTwoTiers ==
    /\ pc = "analyzed"
    /\ BaselineN > 1
    /\ analysis.temperature_zone = "above_average" /\ ~analysis.is_anomaly

\* C6: with exactly one historical row of the city in the current season the
\* standard deviation counts as 0: every reading other than that row's
\* temperature is reported with is_anomaly true, a reading equal to it with
\* is_anomaly false, and nothing is raised.
C6_SingleRowSeason ==
    pc = "analyzed" /\ BaselineN = 1 =>
        /\ "is_anomaly" \in DOMAIN analysis
        /\ analysis.is_anomaly <=> caller.current_temp # BaselineSum

(***************************************************************************)
(* Claims about the callers of the live check (SpecCallers).               *)
(***************************************************************************)
\* the i-th request of the call brought a reading
Obtained(i) ==
    /\ caller.responses[i].kind = "response"
    /\ caller.responses[i].status = 200
    /\ caller.responses[i].well_formed
    /\ ~IsNone(caller.responses[i].temp)

\* the table holds no row of the city in the season of the current month
NoSeasonRows(city) ==
    ~\E i \in 1..Len(processed_df) :
        /\ processed_df[i].city = city
        /\ processed_df[i].season = month_to_season(now_month)

\* C5: when a caller of analyze_temperature_anomaly asks about a city that
\* has no historical row in the current season, no exception leaves the
\* caller, whichever caller it is (the dashboard's check of one city, its
\* comparison of several, the sync and the async monitoring loop).
C5_NoExceptionEscapes ==
    pc = "done" =>
        ((\E i \in 1..Len(caller.cities) :
              Obtained(i) /\ NoSeasonRows(caller.cities[i]))
         => caller.raised = "none")

(***************************************************************************)
(* Further claims about the trend table (SpecTrend).                       *)
(***************************************************************************)
\* the distinct years of the city's rows in df
YearsOf(city) == {df[i].year : i \in {j \in 1..Len(df) : df[j].city = city}}

\* C11: a city whose rows span fewer than 2 distinct years gets no ordinary
\* row in the trend table (the estimation fails with InsufficientHistory for
\* it), and every other city still gets its row.
C11_InsufficientHistory ==
    pc = "trends" =>
        /\ \A city \in CitiesOf(df) :
              Cardinality(YearsOf(city)) < 2 =>
                  ~\E row \in RowsOf(trends_df) : row.city = city
        /\ \A city \in CitiesOf(df) :
              Cardinality(YearsOf(city)) >= 2 =>
                  \E row \in RowsOf(trends_df) : row.city = city

\* the rows of df of the city in the year
YearRows(city, year) ==
    {i \in 1..Len(df) : df[i].city = city /\ df[i].year = year}

YearSum(city, year) ==
    SumOver([i \in 1..Len(df) |-> df[i].temperature], YearRows(city, year))

YearCount(city, year) == Cardinality(YearRows(city, year))

RECURSIVE ProductOver(_, _)
ProductOver(f, S) ==
    IF S = {} THEN 1
    ELSE LET i == CHOOSE j \in S : TRUE IN f[i] * ProductOver(f, S \ {i})

\* the product of the city's yearly row counts
CommonCount(city) ==
    ProductOver([year \in YearsOf(city) |-> YearCount(city, year)], YearsOf(city))

\* CommonCount(city) times the mean temperature of the city in the year
YearMeanTimes(city, year) ==
    YearSum(city, year) * (CommonCount(city) \div YearCount(city, year))

\* the city's yearly means are 10, 11, 12 in 2000, 2001, 2002
IsTenElevenTwelve(city) ==
    /\ YearsOf(city) = {2000, 2001, 2002}
    /\ \A year \in YearsOf(city) :
          YearSum(city, year) = (year - 1990) * YearCount(city, year)

\* C12: every row of the trend table comes from the city's yearly mean
\* temperatures m(y): trend_slope is the least-squares slope of m against
\* the year (it satisfies the normal equation), avg_temperature is the mean
\* of the m(y) and temperature_range their max minus their min, whatever the
\* number of daily rows of each year; yearly means 10, 11, 12 in 2000, 2001,
\* 2002 give slope 1, strong warming, average 11 and range 2.
C12_YearlyMeans ==
    pc = "trends" =>
        \A row \in RowsOf(trends_df) :
            LET Y == YearsOf(row.city)
                n == Cardinality(Y)
                D == CommonCount(row.city)
                M == [year \in Y |-> YearMeanTimes(row.city, year)]
                X == [year \in Y |-> year - 2000]
                Sx == SumOver(X, Y)
                Sm == SumOver(M, Y)
                Sxx == SumOver([year \in Y |-> X[year] * X[year]], Y)
                Sxm == SumOver([year \in Y |-> X[year] * M[year]], Y)
                slope == row.trend_slope
                avg == row.avg_temperature
                range == row.temperature_range
            IN  /\ ~slope.nan /\ slope.k = 0 /\ slope.q # 0
                /\ ~avg.nan /\ avg.k = 0 /\ avg.q # 0
                /\ ~range.nan /\ range.k = 0 /\ range.q # 0
                /\ slope.p * (D * (n * Sxx - Sx * Sx)) = slope.q * (n * Sxm - Sx * Sm)
                /\ avg.p * (D * n) = avg.q * Sm
                /\ \E hi \in Y, lo \in Y :
                      /\ \A year \in Y : M[lo] <= M[year] /\ M[year] <= M[hi]
                      /\ range.p * D = range.q * (M[hi] - M[lo])
                /\ IsTenElevenTwelve(row.city) =>
                      /\ slope.p = slope.q
                      /\ row.trend_class = "strong_warming"
                      /\ avg.p = 11 * avg.q
                      /\ range.p = 2 * range.q

\* the yearly means 10, 11, 12 out of four daily rows: one year has two rows,
\* and the mean of the daily values is not 11
C12_Witness ==
    /\ pc = "trends"
    /\ \E row \in RowsOf(trends_df) :
          /\ IsTenElevenTwelve(row.city)
          /\ \E year \in YearsOf(row.city) : YearCount(row.city, year) = 2
          /\ row.trend_slope.p = row.trend_slope.q
          /\ row.avg_temperature.p = 11 * row.avg_temperature.q

\* years with different numbers of rows and different means
C12_WitnessUneven ==
    /\ pc = "trends"
    /\ \E row \in RowsOf(trends_df) :
          \E y1 \in YearsOf(row.city), y2 \in YearsOf(row.city) :
              /\ YearCount(row.city, y1) = 1 /\ YearCount(row.city, y2) = 3
              /\ YearSum(row.city, y1) * 3 # YearSum(row.city, y2)
              /\ row.trend_slope.p # 0

(***************************************************************************)
(* The season classification on its own: the three copies of the month to  *)
(* season table, each applied to one month.                                *)
(***************************************************************************)
\* the months given to the classification: 1..12 and the neighbours outside
Months == 0..MaxMonth

Copies == {"upload", "sync", "async"}

InitSeason ==
    /\ pc = "season"
    /\ now_month \in Months
    /\ analysis = <<>>
    /\ df = NoTable /\ stats_df = NoTable /\ processed_df = NoTable
    /\ trends_df = NoTable
    /\ window = DefaultWindow
    /\ caller = <<>>

\* df['season'] = df['month'].map(month_to_season): a month that is no key
\* of the dict gives NaN
UploadTagging ==
    /\ pc = "season"
    /\ "upload" \notin DOMAIN analysis
    /\ analysis' = analysis @@ ("upload" :> month_to_season(now_month))
    /\ UNCHANGED <<pc, df, window, stats_df, processed_df, trends_df, now_month, caller>>

\* current_season = month_to_season.get(current_month, 'winter')
SyncSeason ==
    /\ pc = "season"
    /\ "sync" \notin DOMAIN analysis
    /\ analysis' = analysis @@ ("sync" :> current_season(now_month))
    /\ UNCHANGED <<pc, df, window, stats_df, processed_df, trends_df, now_month, caller>>

AsyncSeason ==
    /\ pc = "season"
    /\ "async" \notin DOMAIN analysis
    /\ analysis' = analysis @@ ("async" :> current_season_async(now_month))
    /\ UNCHANGED <<pc, df, window, stats_df, processed_df, trends_df, now_month, caller>>

NextSeason == UploadTagging \/ SyncSeason \/ AsyncSeason

SpecSeason == InitSeason /\ [][NextSeason]_vars

(***************************************************************************)
(* Claims about the season classification (SpecSeason).                    *)
(***************************************************************************)
Seasons == {"winter", "spring", "summer", "autumn"}

\* the season of a month of the year by position: December, January and
\* February are the quarter 0
SeasonByQuarter(m) ==
    LET quarter == (m % 12) \div 3
    IN  IF quarter = 0 THEN "winter"
        ELSE IF quarter = 1 THEN "spring"
        ELSE IF quarter = 2 THEN "summer"
        ELSE "autumn"

\* C13: on the months 1..12 every copy of the month to season table (upload
\* tagging, sync scorer, async scorer) gives winter for 12, 1, 2, spring for
\* 3, 4, 5, summer for 6, 7, 8 and autumn for 9, 10, 11, so the copies agree
\* on every month, each month has a season and each season has exactly three
\* months.
C13_SeasonMapping ==
    /\ now_month \in 1..12 =>
          /\ \A copy \in DOMAIN analysis : analysis[copy] = SeasonByQuarter(now_month)
          /\ \A c1 \in DOMAIN analysis, c2 \in DOMAIN analysis :
                analysis[c1] = analysis[c2]
    /\ \A season \in Seasons :
          /\ Cardinality({m \in 1..12 : month_to_season(m) = season}) = 3
          /\ Cardinality({m \in 1..12 : current_season(m) = season}) = 3
          /\ Cardinality({m \in 1..12 : current_season_async(m) = season}) = 3

\* December classified by all three copies
C13_Witness ==
    /\ now_month = 12
    /\ DOMAIN analysis = Copies
    /\ \A copy \in Copies : analysis[copy] = "winter"

InitFetch ==
    /\ pc = "fetch"
    /\ caller \in {[response |-> r] : r \in FetchResponses}
    /\ analysis = <<>>
    /\ now_month = 1
    /\ df = NoTable /\ stats_df = NoTable /\ processed_df = NoTable
    /\ trends_df = NoTable
    /\ window = DefaultWindow

FetchSync ==
    /\ pc = "fetch"
    /\ "sync" \notin DOMAIN analysis
    /\ analysis' = analysis @@ ("sync" :> get_current_temperature_sync(caller.response))
    /\ UNCHANGED <<pc, df, window, stats_df, processed_df, trends_df, now_month, caller>>

FetchAsync ==
    /\ pc = "fetch"
    /\ "async" \notin DOMAIN analysis
    /\ analysis' = analysis @@ ("async" :> get_current_temperature_async(caller.response))
    /\ UNCHANGED <<pc, df, window, stats_df, processed_df, trends_df, now_month, caller>>

NextFetch == FetchSync \/ FetchAsync

SpecFetch == InitFetch /\ [][NextFetch]_vars

(***************************************************************************)
(* Claims about the fetch functions (SpecFetch).                           *)
(***************************************************************************)
\* C15: whatever the request meets (200 with a well-formed or a malformed
\* body, another status, a network error, a timeout), the triple returned by
\* either fetch function has status 200 exactly when temperature and
\* description are both non-null, and a non-200 response or a network or
\* timeout failure returns (null, the status or null, null).
C15_FetchContract ==
    \A fn \in DOMAIN analysis :
        LET r == analysis[fn]
            response == caller.response
        IN  /\ (~IsNone(r.status) /\ r.status.val = 200)
                <=> (~IsNone(r.temperature) /\ ~IsNone(r.description))
            /\ (response.kind # "response" \/ response.status # 200) =>
                  /\ IsNone(r.temperature) /\ IsNone(r.description)
                  /\ IsNone(r.status) \/ r.status.val = response.status

(***************************************************************************)
(* Claims about batches of cities (SpecCallers).                           *)
(***************************************************************************)
\* the verdicts a batch produced: the rows of the comparison table, the
\* verdicts printed by a monitoring loop
BatchVerdicts ==
    IF caller.op = "multi_city_compare" THEN RowsOf(caller.out.results)
    ELSE {line \in RowsOf(caller.out) : line.kind = "verdict"}

\* the failures a batch reported, as pairs of city and status
BatchFailures ==
    IF caller.op = "multi_city_compare" THEN {}
    ELSE {<<line.city, line.status>> :
             line \in {l \in RowsOf(caller.out) : l.kind = "failed"}}

\* the verdict agrees with the check of that city alone on the same response
MatchesSingleCheck(verdict, i) ==
    LET single == single_city_check(caller.cities[i], caller.responses[i],
                                    processed_df, now_month)
    IN  /\ single.shown = "verdict"
        /\ verdict.temperature = single.temperature
        /\ verdict.season = single.season
        /\ IF caller.op = "multi_city_compare"
           THEN /\ verdict.deviation = single.delta
                /\ (verdict.status = "anomaly") <=> (single.anomaly # "in the norm")
           ELSE /\ verdict.deviation_from_mean = single.delta
                /\ verdict.anomaly = single.anomaly

\* C16: in a batch of cities (the dashboard's comparison, the asynchronous
\* monitoring loop) the verdicts are those of exactly the cities whose fetch
\* succeeded, each equal to the verdict of that city checked alone; a failed
\* fetch neither aborts the batch nor changes another city's verdict, and
\* the status code of every failed city is reported.
C16_BatchIsolation ==
    pc = "done" /\ caller.op \in {"multi_city_compare", "test_async_monitoring"} =>
        LET batch == 1..Len(caller.cities)
        IN  /\ caller.raised = "none"
            /\ {verdict.city : verdict \in BatchVerdicts}
                  = {caller.cities[i] : i \in {j \in batch : Obtained(j)}}
            /\ \A verdict \in BatchVerdicts :
                  \E i \in batch :
                      caller.cities[i] = verdict.city /\ MatchesSingleCheck(verdict, i)
            /\ \A i \in batch :
                  caller.responses[i].kind = "response"
                  /\ caller.responses[i].status # 200 =>
                      <<caller.cities[i], Some(caller.responses[i].status)>>
                          \in BatchFailures

\* some request of the call was answered with status 401
Unauthorized ==
    \E i \in 1..Len(caller.responses) :
        caller.responses[i].kind = "response" /\ caller.responses[i].status = 401

\* C17: on both paths of the dashboard that fetch a live reading (the check
\* of one city, the comparison of several) a 401 from the reading source is
\* shown as an authentication failure, and nothing else is shown as one, so
\* that it can be told from a generic fetch failure.
C17_AuthFailureSurfaced ==
    pc = "done" /\ caller.op \in {"single_city_check", "multi_city_compare"} =>
        (Unauthorized <=> caller.out.shown = "invalid_api_key")

(***************************************************************************)
(* The three functions run twice on one table.                             *)
(***************************************************************************)
InitTwice ==
    /\ pc = "loaded"
    /\ df \in RawTables \ {<<>>}
    /\ window \in 1..MaxWindow
    /\ stats_df = NoTable /\ processed_df = NoTable /\ trends_df = NoTable
    /\ now_month = 1
    /\ analysis = <<>>
    /\ caller = <<>>

\* calculate_moving_stats(df, window), detect_anomalies of its result (which
\* is changed in place) and calculate_long_term_trends; df is only read.
\* caller keeps the table the run was given and what the first function
\* returned
RunPipeline ==
    /\ pc = "loaded"
    /\ \E out \in calculate_moving_stats(df, window) :
          /\ processed_df' = detect_anomalies(out)
          /\ caller' = [input |-> df, moving_stats |-> out]
    /\ stats_df' = processed_df'
    /\ trends_df' = calculate_long_term_trends(processed_df')
    /\ pc' = "ran"
    /\ UNCHANGED <<df, window, now_month, analysis>>

\* the same three calls once more on df as the first run left it; analysis
\* keeps the tables of the first run
RunPipelineAgain ==
    /\ pc = "ran"
    /\ \E out \in rerun_moving_stats(caller.input, caller.moving_stats, df, window) :
          processed_df' = detect_anomalies(out)
    /\ stats_df' = processed_df'
    /\ trends_df' = calculate_long_term_trends(processed_df')
    /\ analysis' = [processed_df |-> processed_df, trends_df |-> trends_df]
    /\ pc' = "ran_twice"
    /\ UNCHANGED <<df, window, now_month, caller>>

NextTwice == RunPipeline \/ RunPipelineAgain

SpecTwice == InitTwice /\ [][NextTwice]_vars

Defects ==
    {"none", "no_city", "no_timestamp", "no_temperature",
     "bad_timestamp", "bad_temperature"}

\* an uploaded file: its rows as the handler tags them, and its defect
Uploads == {[rows |-> t, defect |-> d] : t \in CallerUploads, d \in Defects}

\* the stage of the handler that raises on the file, "none" if none does:
\* pd.to_datetime(df['timestamp']) on a missing column or an unparseable
\* timestamp, df['city'] and the rolling mean of a missing or non-numeric
\* temperature in calculate_moving_stats, and pd.concat of no city at all
RaisingStage(file) ==
    IF file.defect \in {"no_timestamp", "bad_timestamp"} THEN "to_datetime"
    ELSE IF file.defect \in {"no_city", "no_temperature", "bad_temperature"}
         THEN "calculate_moving_stats"
         ELSE IF file.rows = <<>> THEN "concat" ELSE "none"

Session(d, p, t) == [df |-> d, processed_df |-> p, trends_df |-> t]

\* mutant: the table stored in the session as soon as it is read
session_with_partial_df(session, file) == [session EXCEPT !.df = file.rows]

\* mutant: the trend table of the session dropped when a stage raises
session_without_trends(session, file) == [session EXCEPT !.trends_df = NoTable]

\* the session when a stage raised: the three assignments come after the
\* last stage, so except Exception finds the session as it was
session_on_error(session, file) == session

\* the sessions the handler may leave, with what it shows
upload_handler(session, file) ==
    IF RaisingStage(file) # "none"
    THEN {[session |-> session_on_error(session, file), shown |-> "error"]}
    ELSE {[session |-> Session(file.rows, out, calculate_long_term_trends(out)),
           shown |-> "success"] : out \in Processed(file.rows)}

\* the session of a fresh start, or the one an earlier upload has left
InitUpload ==
    /\ pc = "idle"
    /\ df \in CallerUploads
    /\ processed_df \in (IF df = <<>> THEN {NoTable} ELSE Processed(df))
    /\ trends_df = calculate_long_term_trends(processed_df)
    /\ stats_df = NoTable
    /\ window = DefaultWindow
    /\ now_month = 1
    /\ analysis = <<>>
    /\ caller = <<>>

\* a file is uploaded; caller keeps the file, the session before it and what
\* the handler showed
UploadFile ==
    /\ pc = "idle"
    /\ \E file \in Uploads :
          \E result \in upload_handler(Session(df, processed_df, trends_df), file) :
              /\ df' = result.session.df
              /\ processed_df' = result.session.processed_df
              /\ trends_df' = result.session.trends_df
              /\ caller' = [file |-> file,
                            before |-> Session(df, processed_df, trends_df),
                            shown |-> result.shown]
    /\ pc' = "uploaded"
    /\ UNCHANGED <<window, stats_df, now_month, analysis>>

NextUpload == UploadFile

SpecUpload == InitUpload /\ [][NextUpload]_vars

(***************************************************************************)
(* Claims about the upload handler (SpecUpload).                           *)
(***************************************************************************)
\* C19: when the uploaded file is malformed (a required column missing, a
\* timestamp or a value unparseable) or a pipeline stage raises on it, the
\* load is reported as an error and none of the session's df, processed_df
\* and trends_df is set from it: the session is what it was before.
C19_FailedUploadAborts ==
    pc = "uploaded" /\ (caller.file.defect # "none" \/ caller.file.rows = <<>>) =>
        /\ caller.shown = "error"
        /\ df = caller.before.df
        /\ processed_df = caller.before.processed_df
        /\ trends_df = caller.before.trends_df

\* a malformed file with rows other than those of the session, uploaded
\* after a successful upload
C19_Witness ==
    /\ pc = "uploaded"
    /\ caller.file.defect = "bad_temperature"
    /\ caller.file.rows # <<>>
    /\ caller.before.df # <<>>
    /\ caller.file.rows # caller.before.df
    /\ df = caller.before.df

\* a pipeline stage raising on a file without defect: no city at all
C19_WitnessStageRaises ==
    /\ pc = "uploaded"
    /\ caller.file.defect = "none" /\ caller.file.rows = <<>>
    /\ caller.before.df # <<>>
    /\ caller.shown = "error"

(***************************************************************************)
(* Further claims about the analysis pipeline (Spec).                      *)
(***************************************************************************)
\* C20: in every row of the table detect_anomalies returns whose
\* rolling_mean or rolling_std is null (the edge of the window),
\* upper_bound and lower_bound are null, is_anomaly is false and
\* anomaly_type is normal.
C20_NullEdges ==
    pc \in {"anomalies", "trends"} =>
        \A row \in RowsOf(processed_df) :
            IsNull(row.rolling_mean) \/ IsNull(row.rolling_std) =>
                /\ IsNull(row.upper_bound)
                /\ IsNull(row.lower_bound)
                /\ ~row.is_anomaly
                /\ row.anomaly_type = "normal"

\* a table with null rows at the edge and an anomaly inside
C20_Witness ==
    /\ pc = "anomalies"
    /\ \E row \in RowsOf(processed_df) :
          IsNull(row.rolling_mean) /\ IsNull(row.upper_bound) /\ ~row.is_anomaly
    /\ \E row \in RowsOf(processed_df) : row.is_anomaly

\* window 1: the mean is there and the standard deviation is null
C20_WitnessNullStd ==
    /\ pc = "anomalies"
    /\ \E row \in RowsOf(processed_df) :
          /\ ~IsNull(row.rolling_mean) /\ IsNull(row.rolling_std)
          /\ IsNull(row.lower_bound) /\ row.anomaly_type = "normal"

(***************************************************************************)
(* The synchronous and the asynchronous variant side by side: both fetch   *)
(* functions on one response, or both scorers on one call.                 *)
(***************************************************************************)
VariantUploads == GroupedTables(LiveStamps, LiveTemps, MaxCallerRows)

\* the cases the variants are compared on: what a request meets, or the
\* arguments of a call of analyze_temperature_anomaly
FetchCases == {[kind |-> "fetch", response |-> r] : r \in FetchResponses}

AnalyzeCases ==
    {[kind |-> "analyze", city_name |-> c, current_temp |-> x] :
        c \in Cities, x \in Readings}

InitVariants ==
    /\ pc = "variants"
    /\ caller \in FetchCases \cup AnalyzeCases
    /\ IF caller.kind = "fetch"
       THEN df = NoTable /\ processed_df = NoTable /\ now_month = 1
       ELSE /\ df \in VariantUploads
            /\ processed_df \in (IF df = <<>> THEN {NoTable} ELSE Processed(df))
            /\ now_month \in CallerMonths
    /\ stats_df = processed_df
    /\ trends_df = NoTable
    /\ window = DefaultWindow
    /\ analysis = <<>>

VariantFetchSync ==
    /\ pc = "variants" /\ caller.kind = "fetch"
    /\ "sync" \notin DOMAIN analysis
    /\ analysis' = analysis @@ ("sync" :> get_current_temperature_sync(caller.response))
    /\ UNCHANGED <<pc, df, window, stats_df, processed_df, trends_df, now_month, caller>>

VariantFetchAsync ==
    /\ pc = "variants" /\ caller.kind = "fetch"
    /\ "async" \notin DOMAIN analysis
    /\ analysis' = analysis @@ ("async" :> get_current_temperature_async(caller.response))
    /\ UNCHANGED <<pc, df, window, stats_df, processed_df, trends_df, now_month, caller>>

VariantAnalyzeSync ==
    /\ pc = "variants" /\ caller.kind = "analyze"
    /\ "sync" \notin DOMAIN analysis
    /\ analysis' = analysis @@
          ("sync" :> analyze_temperature_anomaly(caller.city_name, caller.current_temp,
                                                 processed_df, now_month))
    /\ UNCHANGED <<pc, df, window, stats_df, processed_df, trends_df, now_month, caller>>

VariantAnalyzeAsync ==
    /\ pc = "variants" /\ caller.kind = "analyze"
    /\ "async" \notin DOMAIN analysis
    /\ analysis' = analysis @@
          ("async" :> analyze_temperature_anomaly_async(caller.city_name,
                                                        caller.current_temp,
                                                        processed_df, now_month))
    /\ UNCHANGED <<pc, df, window, stats_df, processed_df, trends_df, now_month, caller>>

NextVariants ==
    VariantFetchSync \/ VariantFetchAsync \/ VariantAnalyzeSync \/ VariantAnalyzeAsync

SpecVariants == InitVariants /\ [][NextVariants]_vars

C21_WitnessVerdict ==
    /\ DOMAIN analysis = {"sync", "async"}
    /\ caller.kind = "analyze"
    /\ "is_anomaly" \in DOMAIN analysis["async"]
    /\ analysis["async"].is_anomaly

C21_WitnessMalformed ==
    /\ DOMAIN analysis = {"sync", "async"}
    /\ caller.kind = "fetch"
    /\ caller.response = Malformed

(***************************************************************************)
(* One session: files uploaded one after the other.                        *)
(***************************************************************************)
\* if 'df' not in st.session_state: ... = None, for the three tables
InitSession ==
    /\ pc = "session"
    /\ df = NoTable /\ processed_df = NoTable /\ trends_df = NoTable
    /\ stats_df = NoTable
    /\ window = DefaultWindow
    /\ now_month = 1
    /\ analysis = <<>>
    /\ caller = <<>>

\* one more file is uploaded; caller keeps the file and what the handler
\* showed
UploadNextFile ==
    /\ pc = "session"
    /\ \E file \in Uploads :
          \E result \in upload_handler(Session(df, processed_df, trends_df), file) :
              /\ df' = result.session.df
              /\ processed_df' = result.session.processed_df
              /\ trends_df' = result.session.trends_df
              /\ caller' = [file |-> file, shown |-> result.shown]
    /\ UNCHANGED <<pc, window, stats_df, now_month, analysis>>

NextSession == UploadNextFile

SpecSession == InitSession /\ [][NextSession]_vars

(***************************************************************************)
(* Claims about the session (SpecSession).                                 *)
(***************************************************************************)
SessionUnset == df = NoTable /\ processed_df = NoTable /\ trends_df = NoTable

\* the three tables of the session come from one uploaded table
SessionOfOneUpload ==
    /\ df # NoTable
    /\ processed_df \in Processed(df)
    /\ trends_df = calculate_long_term_trends(processed_df)

\* C22: after any sequence of uploads, failed or not, the session's df,
\* processed_df and trends_df are all unset or all derived from the same
\* uploaded table, and an upload that fails leaves the three as they were.
C22_AtomicSwap ==
    /\ [](SessionUnset \/ SessionOfOneUpload)
    /\ [][caller'.shown = "error" => UNCHANGED <<df, processed_df, trends_df>>]_vars

\* a failed upload after a successful one, the session still that of the
\* successful one
C22_Witness ==
    /\ pc = "session"
    /\ caller # <<>>
    /\ caller.shown = "error"
    /\ caller.file.rows # <<>>
    /\ caller.file.rows # df
    /\ SessionOfOneUpload

(***************************************************************************)
(* The concurrent fan-out of test_async_monitoring: one request per city,  *)
(* completing in any order.                                                *)
(***************************************************************************)
\* a table with winter rows of the cities A and B
GatherUploads ==
    {a \o b : a \in CitySeries("A", {20000115}, CallerTemps, MaxCallerRows),
              b \in CitySeries("B", {20000115}, CallerTemps, MaxCallerRows)}

\* two different readings and a failure
GatherResponses ==
    {Response("response", 200, TRUE, Some(t), Some("clear sky")) : t \in ReadingTemps}
    \cup {Response("response", 404, FALSE, NoneNum, NoneStr)}

\* the tasks are created, none has completed; caller holds the cities, what
\* each request will meet, the result slot of every completed task and the
\* order of completion
InitGather ==
    /\ pc = "requests"
    /\ df \in GatherUploads
    /\ processed_df \in Processed(df)
    /\ stats_df = processed_df
    /\ trends_df = NoTable
    /\ window = DefaultWindow
    /\ now_month = 1
    /\ analysis = <<>>
    /\ \E test_cities \in CityLists(TestCities, MaxBatch) \ {<<>>} :
          \E responses \in [1..Len(test_cities) -> GatherResponses] :
              caller = [cities |-> test_cities, responses |-> responses,
                        slots |-> <<>>, order |-> <<>>]

\* the request of task i completes: the task returns its triple
RequestCompletes ==
    /\ pc = "requests"
    /\ \E i \in 1..Len(caller.cities) :
          /\ i \notin DOMAIN caller.slots
          /\ caller' = [caller EXCEPT
                !.slots = @ @@ (i :> get_current_temperature_async(caller.responses[i])),
                !.order = Append(@, i)]
    /\ UNCHANGED <<pc, df, window, stats_df, processed_df, trends_df, now_month, analysis>>

\* every task is done: gather returns and the loop over zip(test_cities,
\* results) prints the verdicts
GatherReturns ==
    /\ pc = "requests"
    /\ Len(caller.order) = Len(caller.cities)
    /\ LET results == gather(caller.slots, caller.order)
           run == AsyncLoop(caller.cities, results, processed_df, now_month)
       IN  analysis' = [results |-> results, printed |-> run.printed,
                        raised |-> run.raised]
    /\ pc' = "gathered"
    /\ UNCHANGED <<df, window, stats_df, processed_df, trends_df, now_month, caller>>

NextGather == RequestCompletes \/ GatherReturns

SpecGather == InitGather /\ [][NextGather]_vars

(***************************************************************************)
(* Claims about the fan-out (SpecGather).                                  *)
(***************************************************************************)
\* the triple holds what the response brought: the reading of a 200, the
\* status alone of a failure
TripleOf(triple, response) ==
    /\ triple.temperature = response.temp
    /\ triple.description = response.description
    /\ triple.status = Some(response.status)

\* C23: in the fan-out every call fills only its own slot: whatever the
\* order in which the requests complete, result i is the triple of city i,
\* and every verdict printed for a city is computed from the reading of
\* that city.
C23_OwnSlot ==
    /\ pc = "requests" =>
          \A i \in DOMAIN caller.slots : TripleOf(caller.slots[i], caller.responses[i])
    /\ pc = "gathered" =>
          /\ Len(analysis.results) = Len(caller.cities)
          /\ \A i \in 1..Len(caller.cities) :
                TripleOf(analysis.results[i], caller.responses[i])
          /\ \A k \in 1..Len(analysis.printed) :
                LET line == analysis.printed[k]
                IN  /\ line.city = caller.cities[k]
                    /\ line.kind \in {"verdict", "reading"} =>
                          /\ ~IsNone(caller.responses[k].temp)
                          /\ line.temperature.p
                                = caller.responses[k].temp.val * line.temperature.q
                    /\ line.kind = "failed" =>
                          line.status = Some(caller.responses[k].status)

\* two cities with different readings, the second request completed first,
\* and both verdicts printed
C23_Witness ==
    /\ pc = "gathered"
    /\ Len(caller.cities) >= 2
    /\ caller.order[1] = 2
    /\ caller.responses[1].temp # caller.responses[2].temp
    /\ ~IsNone(caller.responses[1].temp) /\ ~IsNone(caller.responses[2].temp)
    /\ Len(analysis.printed) >= 2
    /\ analysis.printed[1].kind = "verdict" /\ analysis.printed[2].kind = "verdict"

(***************************************************************************)
(* Further claims about the live check (SpecLive).                         *)
(***************************************************************************)
\* C24: the two tiers of a verdict agree: anomaly_type positive comes with
\* the zone above_average, negative with below_average, and the zone
\* within_normal with is_anomaly false.
C24_TiersConsistent ==
    pc = "analyzed" /\ "is_anomaly" \in DOMAIN analysis =>
        /\ analysis.anomaly_type = "positive" => analysis.temperature_zone = "above_average"
        /\ analysis.anomaly_type = "negative" => analysis.temperature_zone = "below_average"
        /\ analysis.temperature_zone = "within_normal" => ~analysis.is_anomaly

\* a negative anomaly in the zone below the average
C24_Witness ==
    /\ pc = "analyzed"
    /\ "is_anomaly" \in DOMAIN analysis
    /\ analysis.is_anomaly
    /\ analysis.anomaly_type = "negative"
    /\ analysis.temperature_zone = "below_average"

\* a verdict within the normal zone, the standard deviation being defined
C24_WitnessWithin ==
    /\ pc = "analyzed"
    /\ "is_anomaly" \in DOMAIN analysis
    /\ BaselineN > 1
    /\ analysis.temperature_zone = "within_normal" /\ ~analysis.is_anomaly

====
